---- MODULE Spec2Model ----
(***************************************************************************)
(* Stream reconciliation engine of the negotiation dashboard:              *)
(*   - the Room State Store   (store/negotiationStore.tsx)                 *)
(*   - the stream hook        (negotiation-room/hooks/useNegotiationStream) *)
(* The store is a reducer over `rooms`; the hook owns per-room refs, the   *)
(* live streams it opened and the reconnect timers it scheduled.           *)
(***************************************************************************)
EXTENDS Integers, Sequences, FiniteSets, TLC

VARIABLES
    rooms,             \* store: roomId -> NegotiationRoomState (DOMAIN = initialized rooms)
    negotiationRooms,  \* session registry: roomId -> status
    hook,              \* roomId -> the refs of that room's useNegotiationStream instance
    net,               \* roomId -> live streams and pending timers opened by that hook
    hist,              \* roomId -> history of what was handled (observation only)
    twin               \* a second world, fed the same responses in another order

vars == <<rooms, negotiationRooms, hook, net, hist, twin>>

(***************************************************************************)
(* Bounds of the model.                                                    *)
(***************************************************************************)
MaxTimers == 6       \* reconnect timers scheduled per room
MaxPending == 2      \* reconnect timers of a room pending at once
MaxConnects == 2     \* mounts / explicit connects per room
MaxMessages == 3     \* messages kept per room
MaxRounds == 1       \* round numbers of the round specification: 1..MaxRounds
MaxResponses == 2    \* seller responses handled in the round specification
MaxRoomTimers == 1   \* reconnect timers scheduled per room in the two-room specification

RoomIds == {"r1", "r2"}
SellerIds == {"A", "B", "C"}

(***************************************************************************)
(* Optional values: <<>> is null / undefined, <<x>> is x.                  *)
(***************************************************************************)
None == <<>>
Some(x) == <<x>>

Min2(a, b) == IF a < b THEN a ELSE b
Max2(a, b) == IF a > b THEN a ELSE b

RECURSIVE Pow2(_)
Pow2(n) == IF n = 0 THEN 1 ELSE 2 * Pow2(n - 1)

(***************************************************************************)
(* JavaScript objects with string keys keep insertion order: an object is  *)
(* a sequence of entries [key, val]; writing an existing key keeps its     *)
(* place, a new key goes last.                                             *)
(***************************************************************************)
ObjHas(obj, key) == \E i \in 1..Len(obj) : obj[i].key = key

ObjGet(obj, key) == obj[CHOOSE i \in 1..Len(obj) : obj[i].key = key].val

ObjSet(obj, key, val) ==
    IF ObjHas(obj, key)
    THEN [i \in 1..Len(obj) |-> IF obj[i].key = key THEN [key |-> key, val |-> val] ELSE obj[i]]
    ELSE Append(obj, [key |-> key, val |-> val])

ObjKeys(obj) == {obj[i].key : i \in 1..Len(obj)}

(***************************************************************************)
(* negotiationStore.tsx                                                    *)
(***************************************************************************)
initialRoomState ==
    [messages |-> <<>>, offers |-> <<>>, currentRound |-> 0, maxRounds |-> 10,
     decision |-> None, isStreaming |-> FALSE, stream |-> None, roundTimeline |-> <<>>]

initialState == << >>    \* rooms: {}

HasRoom(prev, roomId) == roomId \in DOMAIN prev

PutRoom(prev, roomId, room) ==
    [r \in (DOMAIN prev) \cup {roomId} |-> IF r = roomId THEN room ELSE prev[r]]

\* Array.prototype.sort((a, b) => a.round - b.round): stable insertion by round.
RECURSIVE sortByRound(_)
InsertByRound(sorted, e) ==
    LET k == Cardinality({i \in 1..Len(sorted) : sorted[i].round <= e.round})
    IN  SubSeq(sorted, 1, k) \o <<e>> \o SubSeq(sorted, k + 1, Len(sorted))
sortByRound(entries) ==
    IF entries = <<>> THEN <<>>
    ELSE InsertByRound(sortByRound(SubSeq(entries, 1, Len(entries) - 1)),
                       entries[Len(entries)])

newRoundEntry(round) ==
    [round |-> round, startedAt |-> None, sellerResponses |-> <<>>,
     bestOffer |-> None, cardSavings |-> None]

\* the entries an updater given to upsertRoundEntry can be applied to
UpdaterArgs(entries, round) ==
    {entries[i] : i \in 1..Len(entries)} \cup {newRoundEntry(round)}

\* the RoundEntry of `round` in a room, None if the room has none
RoundEntryOf(room, round) ==
    IF \E i \in 1..Len(room.roundTimeline) : room.roundTimeline[i].round = round
    THEN Some(room.roundTimeline[CHOOSE i \in 1..Len(room.roundTimeline) :
                                    room.roundTimeline[i].round = round])
    ELSE None

\* an upsert that appends a new entry without sorting
upsertRoundEntryUnsorted(entries, round, updater) ==
    IF \E i \in 1..Len(entries) : entries[i].round = round
    THEN [i \in 1..Len(entries) |->
            IF entries[i].round = round THEN updater[entries[i]] ELSE entries[i]]
    ELSE Append(entries, updater[newRoundEntry(round)])

\* updater: a function from RoundTimelineEntry to RoundTimelineEntry
upsertRoundEntry(entries, round, updater) ==
    IF \E i \in 1..Len(entries) : entries[i].round = round
    THEN [i \in 1..Len(entries) |->
            IF entries[i].round = round THEN updater[entries[i]] ELSE entries[i]]
    ELSE sortByRound(Append(entries, updater[newRoundEntry(round)]))

\* an initializeRoom that overwrites the state a room already has
initializeRoomReset(prev, roomId, maxRounds) ==
    PutRoom(prev, roomId, [initialRoomState EXCEPT !.maxRounds = maxRounds])

initializeRoom(prev, roomId, maxRounds) ==
    IF HasRoom(prev, roomId) THEN prev
    ELSE PutRoom(prev, roomId, [initialRoomState EXCEPT !.maxRounds = maxRounds])

\* a message put in front of the timeline instead of at its end
addMessageFirst(prev, roomId, message) ==
    IF ~HasRoom(prev, roomId) THEN prev
    ELSE [prev EXCEPT ![roomId].messages = <<message>> \o @]

addMessage(prev, roomId, message) ==
    IF ~HasRoom(prev, roomId) THEN prev
    ELSE [prev EXCEPT ![roomId].messages = Append(@, message)]

\* an offer update that forgets to spread the offers already held
updateOfferAlone(prev, roomId, sellerId, sellerName, offer) ==
    IF ~HasRoom(prev, roomId) THEN prev
    ELSE [prev EXCEPT ![roomId].offers =
            <<[key |-> sellerId,
               val |-> [price |-> offer.price, quantity |-> offer.quantity,
                        timestamp |-> offer.timestamp, seller_name |-> sellerName]]>>]

updateOffer(prev, roomId, sellerId, sellerName, offer) ==
    IF ~HasRoom(prev, roomId) THEN prev
    ELSE [prev EXCEPT ![roomId].offers =
            ObjSet(@, sellerId, [price |-> offer.price, quantity |-> offer.quantity,
                                 timestamp |-> offer.timestamp, seller_name |-> sellerName])]

updateRound(prev, roomId, round) ==
    IF ~HasRoom(prev, roomId) THEN prev
    ELSE [prev EXCEPT ![roomId].currentRound = round]

setDecision(prev, roomId, decision) ==
    IF ~HasRoom(prev, roomId) THEN prev
    ELSE [prev EXCEPT ![roomId].decision = Some(decision)]

\* a setStreaming that spreads a missing room into a new one
setStreamingCreating(prev, roomId, isStreaming) ==
    PutRoom(prev, roomId,
        [(IF HasRoom(prev, roomId) THEN prev[roomId] ELSE initialRoomState)
            EXCEPT !.isStreaming = isStreaming])

setStreaming(prev, roomId, isStreaming) ==
    IF ~HasRoom(prev, roomId) THEN prev
    ELSE [prev EXCEPT ![roomId].isStreaming = isStreaming]

connectStream(prev, roomId, stream) ==
    IF ~HasRoom(prev, roomId) THEN prev
    ELSE [prev EXCEPT ![roomId].stream = Some(stream), ![roomId].isStreaming = TRUE]

disconnectStream(prev, roomId) ==
    IF ~HasRoom(prev, roomId) THEN prev
    ELSE [prev EXCEPT ![roomId].stream = None, ![roomId].isStreaming = FALSE]

\* a clearRoom that resets `rooms` to the initial, empty map
clearRoomAll(prev, roomId) == initialState

\* `room.stream.close()` closes the EventSource kept in the room's `stream`
\* field, which only connectStream sets; the streams the hook opens are held
\* in its cleanupRef and are not reached from here.
clearRoom(prev, roomId) ==
    [r \in (DOMAIN prev) \ {roomId} |-> prev[r]]

\* a round start that builds the entry anew instead of spreading the old one
recordRoundStartUpdaterFresh(entry, startedAt) ==
    [newRoundEntry(entry.round) EXCEPT !.startedAt = Some(startedAt)]

recordRoundStartUpdater(entry, startedAt) ==
    [entry EXCEPT !.startedAt = Some(startedAt)]

recordRoundStart(prev, roomId, round, startedAt) ==
    IF ~HasRoom(prev, roomId) THEN prev
    ELSE [prev EXCEPT ![roomId].roundTimeline =
            upsertRoundEntry(@, round,
                [entry \in UpdaterArgs(@, round) |-> recordRoundStartUpdater(entry, startedAt)])]

recordSellerResponse(prev, roomId, round, response) ==
    IF ~HasRoom(prev, roomId) THEN prev
    ELSE [prev EXCEPT ![roomId].roundTimeline =
            upsertRoundEntry(@, round,
                [entry \in UpdaterArgs(@, round) |->
                    [entry EXCEPT !.sellerResponses = Append(@, response)]])]

setRoundBestOffer(prev, roomId, round, bestOffer) ==
    IF ~HasRoom(prev, roomId) THEN prev
    ELSE [prev EXCEPT ![roomId].roundTimeline =
            upsertRoundEntry(@, round,
                [entry \in UpdaterArgs(@, round) |-> [entry EXCEPT !.bestOffer = Some(bestOffer)]])]

setRoundCardSavings(prev, roomId, round, cardSavings) ==
    IF ~HasRoom(prev, roomId) THEN prev
    ELSE [prev EXCEPT ![roomId].roundTimeline =
            upsertRoundEntry(@, round,
                [entry \in UpdaterArgs(@, round) |-> [entry EXCEPT !.cardSavings = Some(cardSavings)]])]


(***************************************************************************)
(* Collaborators of the hook whose code is outside the sources at hand:    *)
(* lib/constants, utils/formatters, utils/helpers, lib/api/sse and the     *)
(* session store. They are modelled from the design document.              *)
(***************************************************************************)
MAX_RECONNECT_ATTEMPTS == 5
SSE_RECONNECT_DELAY_BASE == 1000

\* A body is a sequence of tokens; "<think>" stands for one whole thinking
\* block (delimiters and contents). stripThinking removes those blocks.
stripThinking(raw) == SelectSeq(raw, LAMBDA t : t # "<think>")

\* String.prototype.trim() === '' on a token sequence.
IsBlank(body) == \A i \in 1..Len(body) : body[i] = " "

\* findBestOffer: the entry with the lowest price, the earliest such entry
\* of the list on a tie; null for an empty list.
findBestOffer(offerList) ==
    IF offerList = <<>> THEN None
    ELSE LET i == CHOOSE k \in 1..Len(offerList) :
                    /\ \A j \in 1..Len(offerList) : offerList[k].val.price <= offerList[j].val.price
                    /\ \A j \in 1..(k - 1) : offerList[j].val.price > offerList[k].val.price
         IN  Some([sellerId |-> offerList[i].key,
                   seller_name |-> offerList[i].val.seller_name,
                   price |-> offerList[i].val.price])

\* openNegotiationStream(roomId, handleEvent): one more live stream; the value
\* returned is the cleanup closing exactly that stream. Streams are counted:
\* a stream is closed only through the cleanup held in cleanupRef, which is
\* dropped once called, so no stream is closed twice.
openNegotiationStream(n) == [n EXCEPT !.streams = @ + 1]

closeStream(n) == [n EXCEPT !.streams = @ - 1]

\* clearTimeout(id): a pending timer is dropped, a fired or unknown id is ignored.
clearTimeout(n, id) == [n EXCEPT !.timers = {t \in @ : t.id # id}]

\* updateNegotiationRoom(roomId, {status, ...}) / updateNegotiationRoomStatus
updateNegotiationRoomStatus(reg, roomId, status) == [reg EXCEPT ![roomId] = status]

(***************************************************************************)
(* useNegotiationStream.ts: per-room hook state.                           *)
(*   roomsRef keeps the part of the store snapshot the handler reads back  *)
(*   (its own room's offers and currentRound); it is refreshed only by the *)
(*   effect that runs after a render.                                      *)
(***************************************************************************)
SnapshotOf(rs, roomId) ==
    IF HasRoom(rs, roomId)
    THEN Some([offers |-> rs[roomId].offers, currentRound |-> rs[roomId].currentRound])
    ELSE None

initialHook ==
    [reconnectAttemptsRef |-> 0, reconnectTimeoutRef |-> None, cleanupRef |-> None,
     roundStartRef |-> <<>>, roomsRef |-> None, bestOfferRef |-> None, mounted |-> FALSE]

initialNet == [streams |-> 0, timers |-> {}, scheduled |-> 0]

initialHist ==
    [lastResponse |-> None, connects |-> 0, sinceAck |-> 0,
     exhausted |-> FALSE, raceArmed |-> FALSE, torn |-> FALSE, played |-> <<>>,
     referenced |-> {}, late |-> FALSE, atComplete |-> None, reopened |-> 0,
     reinit |-> FALSE]

World == [rooms |-> rooms, negotiationRooms |-> negotiationRooms,
          hook |-> hook, net |-> net, hist |-> hist]

(***************************************************************************)
(* handleEvent, one operator per case; w is a world, the result the world  *)
(* after the handler has run (store updaters applied in call order).       *)
(***************************************************************************)
\* case 'connected'
handleConnected(w, roomId) ==
    [w EXCEPT !.hook[roomId].reconnectAttemptsRef = 0,
              !.rooms = setStreaming(@, roomId, TRUE),
              !.hist[roomId].sinceAck = 0,
              !.hist[roomId].reopened = 0]

\* the delay computed by case 'error'
reconnectDelay(attempts) ==
    Min2(SSE_RECONNECT_DELAY_BASE * Pow2(attempts), 30000)

\* case 'error'
handleError(w, roomId) ==
    LET h == w.hook[roomId]
        n == w.net[roomId]
    IN  IF h.reconnectAttemptsRef < MAX_RECONNECT_ATTEMPTS
        THEN LET delay == reconnectDelay(h.reconnectAttemptsRef)
                 id == n.scheduled + 1
             IN  [w EXCEPT !.net[roomId].timers =
                               @ \cup {[id |-> id, delay |-> delay, n |-> w.hist[roomId].sinceAck]},
                           !.net[roomId].scheduled = id,
                           !.hook[roomId].reconnectTimeoutRef = Some(id),
                           !.hist[roomId].sinceAck = @ + 1]
        ELSE [w EXCEPT !.rooms = setStreaming(@, roomId, FALSE),
                       !.hist[roomId].exhausted = TRUE]

\* the callback given to setTimeout by case 'error'
reconnectTimerCallback(w, roomId, timer) ==
    LET n1 == [w.net[roomId] EXCEPT !.timers = @ \ {timer}]
        n2 == openNegotiationStream(n1)
    IN  [w EXCEPT !.hook[roomId].reconnectAttemptsRef = @ + 1,
                  !.hook[roomId].cleanupRef = Some("cleanup"),
                  !.net[roomId] = n2,
                  !.hist[roomId].reopened = @ + 1]

\* `if (cleanupRef.current) { cleanupRef.current(); cleanupRef.current = null; }`
runCleanupRef(w, roomId) ==
    LET c == w.hook[roomId].cleanupRef
    IN  IF c = None THEN w
        ELSE [w EXCEPT !.net[roomId] = closeStream(@),
                       !.hook[roomId].cleanupRef = None]

\* `if (reconnectTimeoutRef.current) { clearTimeout(...); reconnectTimeoutRef.current = null; }`
clearReconnectTimeout(w, roomId) ==
    LET t == w.hook[roomId].reconnectTimeoutRef
    IN  IF t = None THEN w
        ELSE [w EXCEPT !.net[roomId] = clearTimeout(@, t[1]),
                       !.hook[roomId].reconnectTimeoutRef = None]

\* `if (onCompleteRef.current) onCompleteRef.current(event)`: what the
\* callback finds when it is invoked
invokeOnComplete(w, roomId) ==
    [w EXCEPT !.hist[roomId].atComplete =
        Some([closed |-> w.hook[roomId].cleanupRef = None,
              live |-> w.net[roomId].streams > 0])]

\* the completion of a negotiation up to the session sync (lines 265-285)
completeRoom(w, roomId) ==
    [w EXCEPT !.rooms = setStreaming(@, roomId, FALSE),
              !.negotiationRooms = updateNegotiationRoomStatus(@, roomId, "completed")]

\* a handler that calls onComplete before it closes the connection
handleNegotiationCompleteCallbackFirst(w, roomId) ==
    runCleanupRef(invokeOnComplete(completeRoom(w, roomId), roomId), roomId)

\* case 'negotiation_complete'
handleNegotiationComplete(w, roomId) ==
    invokeOnComplete(runCleanupRef(completeRoom(w, roomId), roomId), roomId)

\* connect(): opens a stream and stores its cleanup
connect(w, roomId) ==
    LET n2 == openNegotiationStream(w.net[roomId])
    IN  [w EXCEPT !.net[roomId] = n2, !.hook[roomId].cleanupRef = Some("cleanup")]

\* disconnect() and the effect's cleanup on unmount (same body)
disconnect(w, roomId) ==
    LET w1 == clearReconnectTimeout(w, roomId)
        w2 == runCleanupRef(w1, roomId)
    IN  [w2 EXCEPT !.rooms = setStreaming(disconnectStream(@, roomId), roomId, FALSE)]


FillerSentence == <<"I'm reviewing your offers and considering the best counter-offer.">>

\* case 'message' / 'buyer_message'
\* `(event.sender_type as Message['sender_type']) || 'buyer'`
senderTypeOf(event) == IF event.sender_type = "" THEN "buyer" ELSE event.sender_type

\* a buyer test that looks at the event type only
isBuyerMessageByType(event) == event.type = "buyer_message"

\* `event.type === 'buyer_message' || (event.sender_type || 'buyer') === 'buyer'`
isBuyerMessage(event) == event.type = "buyer_message" \/ senderTypeOf(event) = "buyer"

handleMessage(w, roomId, event) ==
    LET stripped == stripThinking(event.content)
        senderType == senderTypeOf(event)
        displayMessage == IF IsBlank(stripped) /\ isBuyerMessage(event)
                          THEN FillerSentence ELSE stripped
    IN  IF IsBlank(displayMessage) THEN w
        ELSE [w EXCEPT !.rooms = addMessage(@, roomId,
                [turn |-> event.round, timestamp |-> event.timestamp,
                 sender_type |-> senderType, sender_id |-> event.sender_id,
                 message |-> displayMessage, updated_offer |-> None])]

OfferingText(offer) ==
    <<"Offering $", ToString(offer.price), "/unit for ", ToString(offer.quantity), " units">>

\* case 'seller_response', the message part (lines 105-133)
sellerResponseMessage(event) ==
    LET displaySellerMessage == stripThinking(event.content)
        sellerOfferData ==
            IF event.offer = None THEN None
            ELSE Some([price |-> event.offer[1].price, quantity |-> event.offer[1].quantity,
                       timestamp |-> event.timestamp])
        finalSellerMessage ==
            IF displaySellerMessage # <<>> THEN displaySellerMessage
            ELSE IF sellerOfferData # None THEN OfferingText(sellerOfferData[1]) ELSE <<>>
    IN  [turn |-> event.round, timestamp |-> event.timestamp, sender_type |-> "seller",
         sender_id |-> event.seller_id, message |-> finalSellerMessage,
         updated_offer |-> sellerOfferData]

\* `offersSnapshot = roomsRef.current[roomId]?.offers || {}`
offersSnapshot(h) == IF h.roomsRef = None THEN <<>> ELSE h.roomsRef[1].offers

\* `event.round || roomsRef.current[roomId]?.currentRound || 0`
bestOfferRound(h, event) ==
    IF event.round # 0 THEN event.round
    ELSE IF h.roomsRef = None THEN 0 ELSE h.roomsRef[1].currentRound

\* case 'seller_response', the best-offer recompute (lines 136-162)
sellerResponseOffer(w, roomId, event) ==
    IF event.offer = None THEN w
    ELSE
    LET h == w.hook[roomId]
        sellerOfferData == [price |-> event.offer[1].price,
                            quantity |-> event.offer[1].quantity,
                            timestamp |-> event.timestamp]
        rooms1 == updateOffer(w.rooms, roomId, event.seller_id, event.sender_name, sellerOfferData)
        offersWithNew == ObjSet(offersSnapshot(h), event.seller_id,
                                [price |-> sellerOfferData.price,
                                 quantity |-> sellerOfferData.quantity,
                                 timestamp |-> sellerOfferData.timestamp,
                                 seller_name |-> event.sender_name])
        bestOffer == findBestOffer(offersWithNew)
        changed == /\ bestOffer # None
                   /\ \/ h.bestOfferRef = None
                      \/ h.bestOfferRef[1].sellerId # bestOffer[1].sellerId
                      \/ h.bestOfferRef[1].price # bestOffer[1].price
    IN  IF changed
        THEN [w EXCEPT !.hook[roomId].bestOfferRef =
                            Some([sellerId |-> bestOffer[1].sellerId, price |-> bestOffer[1].price]),
                       !.rooms = setRoundBestOffer(rooms1, roomId, bestOfferRound(h, event),
                                    [sellerId |-> bestOffer[1].sellerId,
                                     sellerName |-> bestOffer[1].seller_name,
                                     price |-> bestOffer[1].price])]
        ELSE [w EXCEPT !.rooms = rooms1]

\* a latency that is not clamped at 0
responseLatencyUnclamped(h, event) ==
    IF event.round \in DOMAIN h.roundStartRef
    THEN event.timestamp - h.roundStartRef[event.round]
    ELSE 0

\* `startAt ? Math.max(0, ts - startAt) : 0`
responseLatency(h, event) ==
    IF event.round \in DOMAIN h.roundStartRef
    THEN Max2(0, event.timestamp - h.roundStartRef[event.round])
    ELSE 0

\* case 'seller_response', the round part (lines 164-184)
sellerResponseRound(w, roomId, event) ==
    IF event.round = 0 THEN w
    ELSE [w EXCEPT !.rooms = recordSellerResponse(@, roomId, event.round,
            [sellerId |-> event.seller_id, sellerName |-> event.sender_name,
             responseMs |-> responseLatency(w.hook[roomId], event),
             price |-> IF event.offer = None THEN None ELSE Some(event.offer[1].price)])]

\* case 'seller_response'
handleSellerResponse(w, roomId, event) ==
    LET w1 == [w EXCEPT !.rooms = addMessage(@, roomId, sellerResponseMessage(event))]
        w2 == sellerResponseOffer(w1, roomId, event)
    IN  sellerResponseRound(w2, roomId, event)

\* an offer handler that also announces the offer in the message timeline
handleOfferAnnounced(w, roomId, event) ==
    [w EXCEPT !.rooms = addMessage(
        updateOffer(@, roomId, event.seller_id, event.seller_name,
            [price |-> event.price_per_unit, quantity |-> event.quantity,
             timestamp |-> event.timestamp]),
        roomId,
        [turn |-> 0, timestamp |-> event.timestamp, sender_type |-> "seller",
         sender_id |-> event.seller_id,
         message |-> OfferingText([price |-> event.price_per_unit, quantity |-> event.quantity]),
         updated_offer |-> None])]

\* case 'offer'
handleOffer(w, roomId, event) ==
    [w EXCEPT !.rooms = updateOffer(@, roomId, event.seller_id, event.seller_name,
        [price |-> event.price_per_unit, quantity |-> event.quantity,
         timestamp |-> event.timestamp])]

\* `${event.chosen_seller_name}` and friends: an absent field prints "undefined"
DecisionText(event) ==
    <<"Deal complete. Selected ",
      IF event.chosen_seller_name = None THEN "undefined" ELSE event.chosen_seller_name[1],
      ToString(event.final_price), ToString(event.final_quantity), ToString(event.total_cost)>>

\* case 'decision'
handleDecision(w, roomId, event) ==
    LET h == w.hook[roomId]
        rooms1 == setDecision(w.rooms, roomId,
            [selected_seller_id |-> event.chosen_seller_id,
             seller_name |-> event.chosen_seller_name,
             final_price |-> event.final_price, quantity |-> event.final_quantity,
             total_cost |-> event.total_cost, timestamp |-> event.timestamp,
             card_savings |-> event.card_savings])
        synced == /\ event.chosen_seller_name # None /\ event.final_price # 0
                  /\ event.final_quantity # 0 /\ event.total_cost # 0
        rooms2 == addMessage(rooms1, roomId,
            [turn |-> IF event.round # 0 THEN event.round ELSE 999,
             timestamp |-> event.timestamp, sender_type |-> "system", sender_id |-> "",
             message |-> DecisionText(event), updated_offer |-> None])
        decisionRound == IF h.roomsRef = None THEN 0 ELSE h.roomsRef[1].currentRound
        rooms3 == IF event.card_savings # None
                  THEN setRoundCardSavings(rooms2, roomId, decisionRound, event.card_savings[1])
                  ELSE rooms2
    IN  [w EXCEPT !.rooms = rooms3,
                  !.negotiationRooms =
                      IF synced THEN updateNegotiationRoomStatus(@, roomId, "completed") ELSE @]

\* case 'round_start'
handleRoundStart(w, roomId, event) ==
    LET rooms1 == updateRound(w.rooms, roomId, event.round_number)
        starts == w.hook[roomId].roundStartRef
    IN  [w EXCEPT !.rooms = recordRoundStart(rooms1, roomId, event.round_number, event.timestamp),
                  !.negotiationRooms = updateNegotiationRoomStatus(@, roomId, "active"),
                  !.hook[roomId].roundStartRef =
                      [r \in (DOMAIN starts) \cup {event.round_number} |->
                          IF r = event.round_number THEN event.timestamp ELSE starts[r]]]

\* handleEvent: the switch over event.type
handleEvent(w, roomId, event) ==
    LET w1 ==
        CASE event.type = "connected" -> handleConnected(w, roomId)
          [] event.type \in {"message", "buyer_message"} -> handleMessage(w, roomId, event)
          [] event.type = "seller_response" -> handleSellerResponse(w, roomId, event)
          [] event.type = "offer" -> handleOffer(w, roomId, event)
          [] event.type = "decision" -> handleDecision(w, roomId, event)
          [] event.type = "round_start" -> handleRoundStart(w, roomId, event)
          [] event.type = "negotiation_complete" -> handleNegotiationComplete(w, roomId)
          [] event.type = "error" -> handleError(w, roomId)
          [] OTHER -> w     \* 'heartbeat'
    IN  [w1 EXCEPT !.hist[roomId].lastResponse =
                       IF event.type = "seller_response" THEN Some(event) ELSE None,
                   !.hist[roomId].raceArmed =
                       IF event.type = "negotiation_complete"
                       THEN @ \/ w.net[roomId].timers # {} ELSE @]


\* `useEffect(() => { roomsRef.current = rooms; }, [rooms])`
render(w, roomId) ==
    [w EXCEPT !.hook[roomId].roomsRef = SnapshotOf(w.rooms, roomId)]

(***************************************************************************)
(* Steps of the system.                                                    *)
(***************************************************************************)
Apply(w) ==
    /\ rooms' = w.rooms
    /\ negotiationRooms' = w.negotiationRooms
    /\ hook' = w.hook
    /\ net' = w.net
    /\ hist' = w.hist

Init ==
    /\ rooms = initialState
    /\ negotiationRooms = [r \in RoomIds |-> "pending"]
    /\ hook = [r \in RoomIds |-> initialHook]
    /\ net = [r \in RoomIds |-> initialNet]
    /\ hist = [r \in RoomIds |-> initialHist]
    /\ twin = None

\* the page initializes the room state
InitializeRoom(roomId) ==
    /\ ~HasRoom(rooms, roomId)
    /\ rooms' = initializeRoom(rooms, roomId, 10)
    /\ UNCHANGED <<negotiationRooms, hook, net, hist, twin>>

\* useEffect([rooms]): the snapshot read by the handler is refreshed after a render
Render(roomId) ==
    /\ hook[roomId].roomsRef # SnapshotOf(rooms, roomId)
    /\ Apply(render(World, roomId))
    /\ UNCHANGED twin

\* useEffect([enabled, roomId]) with enabled = true; the room state is created
\* when the room enters scope, before its stream is first enabled
Mount(roomId) ==
    /\ HasRoom(rooms, roomId)
    /\ ~hook[roomId].mounted
    /\ hist[roomId].connects < MaxConnects
    /\ Apply([connect(World, roomId) EXCEPT !.hook[roomId].mounted = TRUE,
                                            !.hist[roomId].connects = @ + 1,
                                            !.hist[roomId].raceArmed = FALSE,
                                            !.hist[roomId].exhausted = FALSE,
                                            !.hist[roomId].torn = FALSE,
                                            !.hist[roomId].atComplete = None])
    /\ UNCHANGED twin

\* the effect's cleanup (unmount, or enabled / roomId changed)
Unmount(roomId) ==
    /\ hook[roomId].mounted
    /\ Apply([disconnect(World, roomId) EXCEPT !.hook[roomId].mounted = FALSE,
                                               !.hist[roomId].torn = net[roomId].timers # {}])
    /\ UNCHANGED twin

\* connect() returned by the hook
Connect(roomId) ==
    /\ HasRoom(rooms, roomId)
    /\ hist[roomId].connects < MaxConnects
    /\ Apply([connect(World, roomId) EXCEPT !.hist[roomId].connects = @ + 1,
                                            !.hist[roomId].raceArmed = FALSE,
                                            !.hist[roomId].exhausted = FALSE,
                                            !.hist[roomId].torn = FALSE,
                                            !.hist[roomId].atComplete = None])
    /\ UNCHANGED twin

\* disconnect() returned by the hook
Disconnect(roomId) ==
    /\ Apply([disconnect(World, roomId) EXCEPT !.hist[roomId].torn = net[roomId].timers # {}])
    /\ UNCHANGED twin

\* a pending reconnect timer fires
TimerFire(roomId) ==
    /\ \E timer \in net[roomId].timers :
          Apply(reconnectTimerCallback(World, roomId, timer))
    /\ UNCHANGED twin

\* the event types whose handler appends to `messages`
MessageTypes == {"message", "buyer_message", "seller_response", "decision"}

\* a live stream of the room delivers an event to handleEvent
Deliver(roomId, event) ==
    /\ net[roomId].streams > 0
    /\ event.type = "error" /\ hook[roomId].reconnectAttemptsRef < MAX_RECONNECT_ATTEMPTS
          => /\ net[roomId].scheduled < MaxTimers
             /\ Cardinality(net[roomId].timers) < MaxPending
    /\ event.type \in MessageTypes /\ HasRoom(rooms, roomId)
          => Len(rooms[roomId].messages) < MaxMessages
    /\ Apply(handleEvent(World, roomId, event))
    /\ UNCHANGED twin

(***************************************************************************)
(* SpecConn: the connection life cycle of one room.                        *)
(***************************************************************************)
ConnEvents == {[type |-> t] : t \in {"connected", "error", "negotiation_complete", "heartbeat"}}

ConnRooms == {"r1"}

ConnNext ==
    \E roomId \in ConnRooms :
        \/ InitializeRoom(roomId)
        \/ Mount(roomId)
        \/ Unmount(roomId)
        \/ Connect(roomId)
        \/ Disconnect(roomId)
        \/ TimerFire(roomId)
        \/ \E event \in ConnEvents : Deliver(roomId, event)

SpecConn == Init /\ [][ConnNext]_vars


(***************************************************************************)
(* Claims on the connection life cycle (checked under SpecConn).           *)
(***************************************************************************)

\* C1: once `negotiation_complete` has been handled while a reconnect timer
\* was pending, no stream is opened for the room any more (until the hook is
\* connected anew): the number of live streams never grows.
C1_TerminalRace ==
    [][\A r \in RoomIds :
          hist[r].raceArmed /\ hist'[r].raceArmed => net'[r].streams <= net[r].streams]_vars

\* C2: a room whose hook was connected once (the initial connect) has at most
\* one live stream, whatever `error` events, timer firings,
\* `negotiation_complete` events and disconnects follow.
C2_AtMostOneLive ==
    \A r \in RoomIds : hist[r].connects <= 1 => net[r].streams <= 1

\* C3: after disconnect() or the unmount cleanup ran during reconnect backoff
\* on a hook connected once, and until it is connected anew, the room has no
\* pending reconnect timer and no live stream (so none can be opened).
C3_DisconnectCancels ==
    \A r \in RoomIds :
        hist[r].torn /\ hist[r].connects <= 1 => net[r].timers = {} /\ net[r].streams = 0

\* C5: the `error` event handled with the attempt counter at
\* MAX_RECONNECT_ATTEMPTS leaves isStreaming = false and schedules no timer,
\* and from then on no reconnect timer is scheduled for the room.
C5_ExhaustedIsTerminal ==
    [][\A r \in RoomIds :
          hist'[r].exhausted =>
              /\ net'[r].scheduled = net[r].scheduled
              /\ ~hist[r].exhausted /\ HasRoom(rooms', r) => ~rooms'[r].isStreaming]_vars

\* C6: the n-th reconnect scheduled since the last `connected` event
\* (n = 0, 1, ...) has delay min(SSE_RECONNECT_DELAY_BASE * 2^n, 30000).
C6_BackoffDelay ==
    \A r \in RoomIds : \A t \in net[r].timers :
        t.delay = Min2(SSE_RECONNECT_DELAY_BASE * Pow2(t.n), 30000)

\* the world after a step
WorldAfter == [rooms |-> rooms', negotiationRooms |-> negotiationRooms',
               hook |-> hook', net |-> net', hist |-> hist']

\* what disconnect() can change: the store, the refs and the streams and timers
Settled(w, roomId) == [rooms |-> w.rooms, hook |-> w.hook[roomId], net |-> w.net[roomId]]

\* disconnect() called again right after a step would change nothing
DisconnectAgainIsNoOp(roomId) ==
    Settled(disconnect(WorldAfter, roomId), roomId) = Settled(WorldAfter, roomId)

\* C18: after disconnect() was called on a hook connected once, whatever the
\* state of its connection, the room has no live connection, no pending
\* reconnect timer and isStreaming = false, and a second call leaves that
\* state exactly as it is.
C18_DisconnectIdempotent ==
    [][\A r \in ConnRooms :
          Disconnect(r) /\ hist[r].connects <= 1 =>
              /\ DisconnectAgainIsNoOp(r)
              /\ net'[r].streams = 0
              /\ net'[r].timers = {}
              /\ HasRoom(rooms', r) => ~rooms'[r].isStreaming]_vars

\* the second call alone: it changes nothing (kept apart from the state the
\* first call is said to leave)
C18_SecondCallNoOp ==
    [][\A r \in ConnRooms : Disconnect(r) => DisconnectAgainIsNoOp(r)]_vars

\* C19: when onComplete is invoked for `negotiation_complete`, the cleanup
\* the hook held has already been called (the connection is closed, cleanupRef
\* is null); on a hook connected once that never reconnected, the room has no
\* live connection at that moment.
C19_CloseBeforeOnComplete ==
    \A r \in ConnRooms :
        hist[r].atComplete # None =>
            /\ hist[r].atComplete[1].closed
            /\ hist[r].connects <= 1 /\ net[r].scheduled = 0
                  => ~hist[r].atComplete[1].live

\* onComplete was invoked on a hook whose stream was live when the event came
C19_Witness ==
    /\ hist["r1"].atComplete # None
    /\ hist["r1"].connects = 1
    /\ net["r1"].scheduled = 0
    /\ net["r1"].streams = 0
    /\ hook["r1"].cleanupRef = None
    /\ negotiationRooms["r1"] = "completed"

\* C20: since the last `connected` event (or since the hook was created) at
\* most MAX_RECONNECT_ATTEMPTS reconnect streams were opened for the room.
C20_ReconnectBounded ==
    \A r \in ConnRooms : hist[r].reopened <= MAX_RECONNECT_ATTEMPTS

\* C29: a room has at most one pending reconnect timer, and it is the one
\* whose handle reconnectTimeoutRef keeps, so that disconnect() cancels it.
C29_OnePendingTimerHeld ==
    \A r \in ConnRooms :
        /\ Cardinality(net[r].timers) <= 1
        /\ \A t \in net[r].timers : hook[r].reconnectTimeoutRef = Some(t.id)


(***************************************************************************)
(* Events of the dispatch specifications.                                  *)
(***************************************************************************)
Prices == {90, 100}

SellerResponse(seller, content, offer, round, ts) ==
    [type |-> "seller_response", content |-> content, seller_id |-> seller,
     sender_name |-> seller, offer |-> offer, round |-> round, timestamp |-> ts]

OfferOf(price) == Some([price |-> price, quantity |-> 1])

\* seller responses carrying an offer
OfferResponses ==
    {SellerResponse(s, <<"hi">>, OfferOf(p), 1, 1) : s \in SellerIds, p \in Prices}

(***************************************************************************)
(* Spec: one room receiving seller responses with offers, the snapshot     *)
(* read by the handler being refreshed by renders in between.              *)
(***************************************************************************)
Next ==
    \/ InitializeRoom("r1")
    \/ Mount("r1")
    \/ Render("r1")
    \/ \E event \in OfferResponses : Deliver("r1", event)

Spec == Init /\ [][Next]_vars

\* the best offer of the store's offer map, as the hook keeps it in bestOfferRef
StoreBest(r) ==
    LET b == findBestOffer(rooms[r].offers)
    IN  IF b = None THEN None ELSE Some([sellerId |-> b[1].sellerId, price |-> b[1].price])

\* C7: right after a `seller_response` carrying an offer was handled, the
\* resolved best offer (bestOfferRef) is the lowest-priced entry of the room's
\* offer map, the earliest inserted one among equals.
C7_BestOfferIsMin ==
    \A r \in DOMAIN rooms :
        hist[r].lastResponse # None => hook[r].bestOfferRef = StoreBest(r)

\* C8: handling the `seller_response` that was handled last once more leaves
\* offers[seller_id] as it was and resolves the same best offer (so neither
\* setRoundBestOffer is called nor the toast pushed a second time).
C8_ReplayIdempotent ==
    [][\A r \in (DOMAIN rooms) \cap (DOMAIN rooms') :
          hist[r].lastResponse # None /\ hist'[r].lastResponse = hist[r].lastResponse
          => /\ rooms'[r].offers = rooms[r].offers
             /\ hook'[r].bestOfferRef = hook[r].bestOfferRef]_vars

\* the lowest price among the offers of an offer map
MinPrice(offers) ==
    CHOOSE p \in {offers[i].val.price : i \in 1..Len(offers)} :
        \A i \in 1..Len(offers) : p <= offers[i].val.price

\* C27: right after a `seller_response` carrying an offer was handled, the
\* price of the resolved best offer, in bestOfferRef and in the bestOffer of
\* the response's round, is the lowest price among all offers applied to the
\* room so far, whether or not a render refreshed roomsRef since the
\* response handled before.
C27_BestOfferOverAllApplied ==
    \A r \in DOMAIN rooms :
        hist[r].lastResponse # None /\ hist[r].lastResponse[1].offer # None =>
            LET entry == RoundEntryOf(rooms[r], hist[r].lastResponse[1].round)
            IN  /\ hook[r].bestOfferRef # None
                /\ hook[r].bestOfferRef[1].price = MinPrice(rooms[r].offers)
                /\ entry # None
                /\ entry[1].bestOffer # None
                /\ entry[1].bestOffer[1].price = MinPrice(rooms[r].offers)


(***************************************************************************)
(* SpecMsg: one room receiving messages, seller responses without and with *)
(* an offer, offers and decisions.                                         *)
(***************************************************************************)
MessageEvent(type, senderType, content) ==
    [type |-> type, content |-> content, sender_type |-> senderType,
     sender_id |-> IF senderType = "seller" THEN "A" ELSE "buyer",
     round |-> 1, timestamp |-> 1]

OfferEvent(seller, price, ts) ==
    [type |-> "offer", seller_id |-> seller, seller_name |-> seller,
     price_per_unit |-> price, quantity |-> 1, timestamp |-> ts]

DealDecision ==
    [type |-> "decision", chosen_seller_id |-> Some("A"), chosen_seller_name |-> Some("A"),
     final_price |-> 90, final_quantity |-> 2, total_cost |-> 180,
     card_savings |-> Some(5), round |-> 1, timestamp |-> 2]

NoDealDecision ==
    [type |-> "decision", chosen_seller_id |-> None, chosen_seller_name |-> None,
     final_price |-> 0, final_quantity |-> 0, total_cost |-> 0,
     card_savings |-> None, round |-> 0, timestamp |-> 2]

MsgEvents ==
    {SellerResponse("A", <<>>, None, 0, 1),
     SellerResponse("A", <<"<think>">>, None, 0, 1),
     SellerResponse("A", <<"<think>", "hi">>, None, 0, 1),
     SellerResponse("A", <<>>, OfferOf(90), 0, 1),
     MessageEvent("message", "seller", <<"<think>">>),
     MessageEvent("message", "seller", <<"hi">>),
     MessageEvent("message", "", <<>>),
     MessageEvent("buyer_message", "buyer", <<"<think>", " ">>),
     OfferEvent("B", 100, 1),
     OfferEvent("B", 90, 2),
     DealDecision,
     NoDealDecision,
     [type |-> "connected"]}

MsgNext ==
    \/ InitializeRoom("r1")
    \/ Mount("r1")
    \/ Render("r1")
    \/ \E event \in MsgEvents : Deliver("r1", event)

SpecMsg == Init /\ [][MsgNext]_vars

IsSystemAppend(before, after) ==
    /\ Len(after) = Len(before) + 1
    /\ SubSeq(after, 1, Len(before)) = before
    /\ after[Len(after)].sender_type = "system"

\* C4: a room whose decision is set is not streaming, and from the step after
\* the decision was set its offers do not change and its messages change only
\* by a system (decision-confirmation) message being appended.
C4_DecisionIsTerminal ==
    [][\A r \in (DOMAIN rooms) \cap (DOMAIN rooms') :
          rooms'[r].decision # None =>
              /\ ~rooms'[r].isStreaming
              /\ rooms[r].decision # None =>
                    /\ rooms'[r].offers = rooms[r].offers
                    /\ \/ rooms'[r].messages = rooms[r].messages
                       \/ IsSystemAppend(rooms[r].messages, rooms'[r].messages)]_vars

\* C10: handling a `seller_response` that carries no offer and whose body is
\* empty once the thinking blocks are stripped leaves `messages` unchanged.
C10_EmptySellerResponseDropped ==
    [][\A r \in (DOMAIN rooms) \cap (DOMAIN rooms') :
          /\ hist'[r].lastResponse # None
          /\ hist'[r].lastResponse[1].offer = None
          /\ stripThinking(hist'[r].lastResponse[1].content) = <<>>
          => rooms'[r].messages = rooms[r].messages]_vars

\* `messages` of room r grew by exactly one message, whose body is `body`
AppendedOne(r, body) ==
    /\ Len(rooms'[r].messages) = Len(rooms[r].messages) + 1
    /\ SubSeq(rooms'[r].messages, 1, Len(rooms[r].messages)) = rooms[r].messages
    /\ rooms'[r].messages[Len(rooms'[r].messages)].message = body

\* the buyer's events of MsgEvents whose body is blank once stripped
BlankBuyerEvents ==
    {e \in MsgEvents :
        /\ e.type \in {"message", "buyer_message"}
        /\ e.type = "buyer_message" \/ e.sender_type \in {"", "buyer"}
        /\ \A i \in 1..Len(e.content) : e.content[i] \in {"<think>", " "}}

\* C11: every step handling a `buyer_message` event, or a `message` event
\* whose sender is the buyer, whose body is blank once the thinking blocks are
\* stripped appends exactly one Message, and its body is the filler sentence.
C11_BuyerFiller ==
    [][\A e \in BlankBuyerEvents :
          Deliver("r1", e) => AppendedOne("r1", FillerSentence) /\ FillerSentence # <<>>]_vars

\* a filler message of the buyer is in the room, put there for a `message`
\* event that named no sender
C11_Witness ==
    /\ HasRoom(rooms, "r1")
    /\ \E i \in 1..Len(rooms["r1"].messages) :
          /\ rooms["r1"].messages[i].message = FillerSentence
          /\ rooms["r1"].messages[i].sender_type = "buyer"

\* C13: the stored offer of a seller is never replaced by an offer with an
\* older timestamp: offers[seller].timestamp never decreases.
C13_NoStaleOverwrite ==
    [][\A r \in (DOMAIN rooms) \cap (DOMAIN rooms') :
          \A s \in ObjKeys(rooms[r].offers) \cap ObjKeys(rooms'[r].offers) :
              ObjGet(rooms'[r].offers, s).timestamp >= ObjGet(rooms[r].offers, s).timestamp]_vars

IsPrefix(before, after) ==
    /\ Len(before) <= Len(after)
    /\ SubSeq(after, 1, Len(before)) = before

\* C14: handling an event never removes, reorders or rewrites a message: the
\* messages held before are a prefix of the messages held after, and the
\* message of the event handled last is the last one, whatever its timestamp.
C14_MessagesAppendOnly ==
    [][\A r \in (DOMAIN rooms) \cap (DOMAIN rooms') :
          /\ IsPrefix(rooms[r].messages, rooms'[r].messages)
          /\ hist'[r].lastResponse # None =>
                /\ rooms'[r].messages # <<>>
                /\ rooms'[r].messages[Len(rooms'[r].messages)].sender_id =
                       hist'[r].lastResponse[1].seller_id
                /\ rooms'[r].messages[Len(rooms'[r].messages)].timestamp =
                       hist'[r].lastResponse[1].timestamp]_vars

\* a message with an older timestamp stands after one with a newer timestamp
C14_Witness ==
    /\ HasRoom(rooms, "r1")
    /\ \E i \in 1..Len(rooms["r1"].messages) : \E j \in 1..Len(rooms["r1"].messages) :
          /\ i < j
          /\ rooms["r1"].messages[i].timestamp > rooms["r1"].messages[j].timestamp

\* the `offer` events of MsgEvents
MsgOfferEvents == {e \in MsgEvents : e.type = "offer"}

\* C26: handling an `offer` event upserts offers[seller_id] (price, quantity,
\* timestamp, seller name) and nothing else: every other seller's offer,
\* messages, currentRound, maxRounds, decision, isStreaming and roundTimeline
\* are unchanged.
C26_OfferFrame ==
    [][\A e \in MsgOfferEvents :
          Deliver("r1", e) /\ HasRoom(rooms, "r1") =>
              LET before == rooms["r1"]
                  after == rooms'["r1"]
              IN  /\ ObjKeys(after.offers) = ObjKeys(before.offers) \cup {e.seller_id}
                  /\ Len(after.offers) = Cardinality(ObjKeys(after.offers))
                  /\ ObjGet(after.offers, e.seller_id) =
                        [price |-> e.price_per_unit, quantity |-> e.quantity,
                         timestamp |-> e.timestamp, seller_name |-> e.seller_name]
                  /\ \A s \in ObjKeys(before.offers) \ {e.seller_id} :
                        ObjGet(after.offers, s) = ObjGet(before.offers, s)
                  /\ after.messages = before.messages
                  /\ after.currentRound = before.currentRound
                  /\ after.maxRounds = before.maxRounds
                  /\ after.decision = before.decision
                  /\ after.isStreaming = before.isStreaming
                  /\ after.roundTimeline = before.roundTimeline]_vars

\* the room holds messages, a decision, the offer of A (from a seller
\* response) and the offer of B brought by an `offer` event
C26_Witness ==
    /\ HasRoom(rooms, "r1")
    /\ rooms["r1"].messages # <<>>
    /\ rooms["r1"].decision # None
    /\ ObjKeys(rooms["r1"].offers) = {"A", "B"}
    /\ ObjGet(rooms["r1"].offers, "B").price = 90
    /\ ObjGet(rooms["r1"].offers, "B").timestamp = 2

\* C21: handling a `decision` event sets the room's decision to the one of the
\* event; it appends the system message describing the deal if the decision
\* names a seller, and leaves `messages` as they were if it names none.
C21_DecisionMessage ==
    [][\A e \in {DealDecision, NoDealDecision} :
          Deliver("r1", e) /\ HasRoom(rooms, "r1") =>
              /\ rooms'["r1"].decision # None
              /\ rooms'["r1"].decision[1].selected_seller_id = e.chosen_seller_id
              /\ IF e.chosen_seller_id # None
                 THEN IsSystemAppend(rooms["r1"].messages, rooms'["r1"].messages)
                 ELSE rooms'["r1"].messages = rooms["r1"].messages]_vars


(***************************************************************************)
(* SpecRound: two worlds of one room are fed the same seller responses,    *)
(* with the renders at the same places between them. The first world is    *)
(* handed round_start(r) at any place (before, between or after the        *)
(* responses), the second one before the first response.                   *)
(***************************************************************************)
RoundNumbers == 1..MaxRounds

RoundStartOf(rn, m, ts) ==
    [type |-> "round_start", round_number |-> rn, max_rounds |-> m, timestamp |-> ts]

RoundStart(rn) ==
    [type |-> "round_start", round_number |-> rn, max_rounds |-> 10, timestamp |-> 2]

RoundResponses ==
    {SellerResponse(s, <<"hi">>, OfferOf(p), rn, 3) :
        s \in {"A", "B"}, p \in Prices, rn \in RoundNumbers}

Started(w, rn) == rn \in DOMAIN w.hook["r1"].roundStartRef

\* the second world starts as a copy of the first, once the room is connected
Fork ==
    /\ twin = None
    /\ hook["r1"].mounted
    /\ twin' = Some(World)
    /\ UNCHANGED <<rooms, negotiationRooms, hook, net, hist>>

BothRespond(event) ==
    /\ twin # None
    /\ Len(rooms["r1"].messages) < MaxResponses
    /\ Apply(handleEvent(World, "r1", event))
    /\ twin' = Some(handleEvent(twin[1], "r1", event))

BothRender ==
    /\ twin # None
    /\ \/ hook["r1"].roomsRef # SnapshotOf(rooms, "r1")
       \/ twin[1].hook["r1"].roomsRef # SnapshotOf(twin[1].rooms, "r1")
    /\ Apply(render(World, "r1"))
    /\ twin' = Some(render(twin[1], "r1"))

StartMain(rn) ==
    /\ twin # None
    /\ ~Started(World, rn)
    /\ Apply(handleEvent(World, "r1", RoundStart(rn)))
    /\ UNCHANGED twin

StartTwin(rn) ==
    /\ twin # None
    /\ ~Started(twin[1], rn)
    /\ twin[1].rooms["r1"].messages = <<>>
    /\ twin' = Some(handleEvent(twin[1], "r1", RoundStart(rn)))
    /\ UNCHANGED <<rooms, negotiationRooms, hook, net, hist>>

RoundNext ==
    \/ InitializeRoom("r1")
    \/ Mount("r1")
    \/ Fork
    \/ BothRender
    \/ \E event \in RoundResponses : BothRespond(event)
    \/ \E rn \in RoundNumbers : StartMain(rn)
    \/ \E rn \in RoundNumbers : StartTwin(rn)

SpecRound == Init /\ [][RoundNext]_vars

EntryOf(w, rn) ==
    LET tl == w.rooms["r1"].roundTimeline
    IN  tl[CHOOSE i \in 1..Len(tl) : tl[i].round = rn]

\* a RoundEntry without the recorded latencies
SansLatency(entry) ==
    [round |-> entry.round, startedAt |-> entry.startedAt, bestOffer |-> entry.bestOffer,
     sellerResponses |->
        [i \in 1..Len(entry.sellerResponses) |->
            [sellerId |-> entry.sellerResponses[i].sellerId,
             sellerName |-> entry.sellerResponses[i].sellerName,
             price |-> entry.sellerResponses[i].price]]]

\* C9: a world handed round_start(r) at any place among the responses and the
\* world handed it before them hold the same RoundEntry for r up to the
\* recorded latencies: same startedAt, same seller responses in the same
\* order, same best offer.
C9_RoundOrderIndependent ==
    twin # None =>
        \A rn \in RoundNumbers :
            Started(World, rn) /\ Started(twin[1], rn)
            => SansLatency(EntryOf(World, rn)) = SansLatency(EntryOf(twin[1], rn))

\* round 1 was started after its two responses in the first world and before
\* them in the second: the entries hold a best offer and differ in latencies
C9_Witness ==
    /\ twin # None
    /\ Started(World, 1) /\ Started(twin[1], 1)
    /\ Len(EntryOf(World, 1).sellerResponses) >= 2
    /\ EntryOf(World, 1).bestOffer # None
    /\ \A i \in 1..Len(EntryOf(World, 1).sellerResponses) :
          /\ EntryOf(World, 1).sellerResponses[i].responseMs = 0
          /\ EntryOf(twin[1], 1).sellerResponses[i].responseMs > 0

(***************************************************************************)
(* SpecScenario: a whole negotiation of one room, from `connected` to      *)
(* `negotiation_complete`: a round start, the responses of two sellers, the *)
(* buyer's decision for the second one. Renders happen at any place.       *)
(***************************************************************************)
ScenarioPrices == {100, 120}

ScenarioQuantity == 2

DecisionFor(seller, price, quantity, ts) ==
    [type |-> "decision", chosen_seller_id |-> Some(seller), chosen_seller_name |-> Some(seller),
     final_price |-> price, final_quantity |-> quantity, total_cost |-> price * quantity,
     card_savings |-> None, round |-> 1, timestamp |-> ts]

Scenario(s1, p1, s2, p2) ==
    <<[type |-> "connected"],
      RoundStart(1),
      SellerResponse(s1, <<"hi">>, OfferOf(p1), 1, 3),
      SellerResponse(s2, <<"hi">>, OfferOf(p2), 1, 4),
      DecisionFor(s2, p2, ScenarioQuantity, 5),
      [type |-> "negotiation_complete"]>>

Scenarios ==
    {Scenario(s1, p1, s2, p2) :
        s1 \in SellerIds, p1 \in ScenarioPrices, s2 \in SellerIds, p2 \in ScenarioPrices}

\* the next event of a scenario is delivered by the live stream
Play(roomId) ==
    /\ net[roomId].streams > 0
    /\ \E sc \in Scenarios :
          LET k == Len(hist[roomId].played) + 1
          IN  /\ k <= Len(sc)
              /\ SubSeq(sc, 1, k - 1) = hist[roomId].played
              /\ Apply([handleEvent(World, roomId, sc[k])
                           EXCEPT !.hist[roomId].played = Append(@, sc[k])])
    /\ UNCHANGED twin

ScenarioNext ==
    \/ InitializeRoom("r1")
    \/ Mount("r1")
    \/ Render("r1")
    \/ Play("r1")

SpecScenario == Init /\ [][ScenarioNext]_vars

\* C12: after connected, round_start(1), seller_response(A, 120),
\* seller_response(B, 100), decision(B, 100, quantity 2, total 200) and
\* negotiation_complete were handled in that order, the room holds exactly 2
\* offers, the best offer (resolved by the hook and recorded for round 1) is
\* B at 100, the decision has total_cost = 200 and isStreaming is false.
C12_EndToEnd ==
    hist["r1"].played = Scenario("A", 120, "B", 100) =>
        /\ Len(rooms["r1"].offers) = 2
        /\ ObjKeys(rooms["r1"].offers) = {"A", "B"}
        /\ hook["r1"].bestOfferRef = Some([sellerId |-> "B", price |-> 100])
        /\ EntryOf(World, 1).bestOffer =
              Some([sellerId |-> "B", sellerName |-> "B", price |-> 100])
        /\ rooms["r1"].decision # None
        /\ rooms["r1"].decision[1].total_cost = 200
        /\ rooms["r1"].decision[1].selected_seller_id = Some("B")
        /\ ~rooms["r1"].isStreaming

\* the scenario of the claim was played to its end
C12_Witness ==
    /\ hist["r1"].played = Scenario("A", 120, "B", 100)
    /\ net["r1"].streams = 0
    /\ negotiationRooms["r1"] = "completed"

(***************************************************************************)
(* SpecTimeline: the four round mutations of the store called in any order *)
(* on one initialized room, for the rounds 0..MaxRounds.                   *)
(***************************************************************************)
TimelineRounds == 0..MaxRounds

TimelineResponse == [sellerId |-> "A", sellerName |-> "A", responseMs |-> 0, price |-> Some(90)]

TimelineBest == [sellerId |-> "A", sellerName |-> "A", price |-> 90]

\* observation of a store call: the rounds it referenced, and whether it was
\* made for a room that has no state
Noted(roomId, rounds) ==
    hist' = [hist EXCEPT ![roomId].referenced = @ \cup rounds,
                         ![roomId].late = @ \/ ~HasRoom(rooms, roomId)]

RecordRoundStart(roomId, round) ==
    /\ rooms' = recordRoundStart(rooms, roomId, round, 2)
    /\ Noted(roomId, {round})
    /\ UNCHANGED <<negotiationRooms, hook, net, twin>>

RecordSellerResponse(roomId, round) ==
    /\ HasRoom(rooms, roomId) =>
          \A i \in 1..Len(rooms[roomId].roundTimeline) :
              rooms[roomId].roundTimeline[i].round = round
              => Len(rooms[roomId].roundTimeline[i].sellerResponses) < MaxResponses
    /\ rooms' = recordSellerResponse(rooms, roomId, round, TimelineResponse)
    /\ Noted(roomId, {round})
    /\ UNCHANGED <<negotiationRooms, hook, net, twin>>

SetRoundBestOffer(roomId, round) ==
    /\ rooms' = setRoundBestOffer(rooms, roomId, round, TimelineBest)
    /\ Noted(roomId, {round})
    /\ UNCHANGED <<negotiationRooms, hook, net, twin>>

SetRoundCardSavings(roomId, round) ==
    /\ rooms' = setRoundCardSavings(rooms, roomId, round, 5)
    /\ Noted(roomId, {round})
    /\ UNCHANGED <<negotiationRooms, hook, net, twin>>

TimelineNext ==
    \/ InitializeRoom("r1")
    \/ /\ HasRoom(rooms, "r1")
       /\ \E round \in TimelineRounds :
             \/ RecordRoundStart("r1", round)
             \/ RecordSellerResponse("r1", round)
             \/ SetRoundBestOffer("r1", round)
             \/ SetRoundCardSavings("r1", round)

SpecTimeline == Init /\ [][TimelineNext]_vars

\* C15: roundTimeline holds exactly one entry for each round referenced so
\* far by the four round mutations, in strictly increasing round order.
C15_TimelineUniqueSorted ==
    HasRoom(rooms, "r1") =>
        LET tl == rooms["r1"].roundTimeline
        IN  /\ {tl[i].round : i \in 1..Len(tl)} = hist["r1"].referenced
            /\ \A i \in 1..Len(tl) : \A j \in 1..Len(tl) :
                  i < j => tl[i].round < tl[j].round

\* every round is referenced; round 0 was referenced by a response only,
\* the last round was started and holds a best offer and card savings
C15_Witness ==
    /\ HasRoom(rooms, "r1")
    /\ hist["r1"].referenced = TimelineRounds
    /\ LET tl == rooms["r1"].roundTimeline
       IN  /\ Len(tl) >= 2
           /\ tl[1].round = 0 /\ tl[1].startedAt = None /\ tl[1].sellerResponses # <<>>
           /\ tl[Len(tl)].startedAt # None
           /\ tl[Len(tl)].bestOffer # None
           /\ tl[Len(tl)].cardSavings # None

(***************************************************************************)
(* SpecStore: the mutations of the store called in any order for a room    *)
(* that is initialized and cleared by its owner (r1) and for a room that   *)
(* never has state (r2).                                                   *)
(***************************************************************************)
StoreMessage ==
    [turn |-> 1, timestamp |-> 1, sender_type |-> "seller", sender_id |-> "A",
     message |-> <<"hi">>, updated_offer |-> None]

StoreOffer == [price |-> 90, quantity |-> 1, timestamp |-> 1]

StoreDecision ==
    [selected_seller_id |-> Some("A"), seller_name |-> Some("A"), final_price |-> 90,
     quantity |-> 1, total_cost |-> 90, timestamp |-> 2, card_savings |-> None]

ClearRoom(roomId) ==
    /\ HasRoom(rooms, roomId)
    /\ rooms' = clearRoom(rooms, roomId)
    /\ UNCHANGED <<negotiationRooms, hook, net, hist, twin>>

AddMessage(roomId) ==
    /\ HasRoom(rooms, roomId) => Len(rooms[roomId].messages) < MaxMessages
    /\ rooms' = addMessage(rooms, roomId, StoreMessage)
    /\ Noted(roomId, {})
    /\ UNCHANGED <<negotiationRooms, hook, net, twin>>

UpdateOffer(roomId) ==
    /\ rooms' = updateOffer(rooms, roomId, "A", "A", StoreOffer)
    /\ Noted(roomId, {})
    /\ UNCHANGED <<negotiationRooms, hook, net, twin>>

UpdateRound(roomId) ==
    /\ rooms' = updateRound(rooms, roomId, 1)
    /\ Noted(roomId, {})
    /\ UNCHANGED <<negotiationRooms, hook, net, twin>>

SetDecision(roomId) ==
    /\ rooms' = setDecision(rooms, roomId, StoreDecision)
    /\ Noted(roomId, {})
    /\ UNCHANGED <<negotiationRooms, hook, net, twin>>

SetStreaming(roomId) ==
    /\ \E isStreaming \in BOOLEAN : rooms' = setStreaming(rooms, roomId, isStreaming)
    /\ Noted(roomId, {})
    /\ UNCHANGED <<negotiationRooms, hook, net, twin>>

ConnectStream(roomId) ==
    /\ rooms' = connectStream(rooms, roomId, "EventSource")
    /\ Noted(roomId, {})
    /\ UNCHANGED <<negotiationRooms, hook, net, twin>>

DisconnectStream(roomId) ==
    /\ rooms' = disconnectStream(rooms, roomId)
    /\ Noted(roomId, {})
    /\ UNCHANGED <<negotiationRooms, hook, net, twin>>

\* any of the eleven mutations, called for roomId
StoreMutation(roomId) ==
    \/ AddMessage(roomId)
    \/ UpdateOffer(roomId)
    \/ UpdateRound(roomId)
    \/ SetDecision(roomId)
    \/ SetStreaming(roomId)
    \/ ConnectStream(roomId)
    \/ DisconnectStream(roomId)
    \/ RecordRoundStart(roomId, 1)
    \/ RecordSellerResponse(roomId, 1)
    \/ SetRoundBestOffer(roomId, 1)
    \/ SetRoundCardSavings(roomId, 1)

StoreNext ==
    \/ InitializeRoom("r1")
    \/ ClearRoom("r1")
    \/ \E roomId \in RoomIds : StoreMutation(roomId)

SpecStore == Init /\ [][StoreNext]_vars

\* C16: a store mutation called for a room id that has no state leaves the
\* whole store unchanged; in particular it does not create the room.
C16_MissingRoomNoOp ==
    [][\A r \in RoomIds :
          ~HasRoom(rooms, r) /\ StoreMutation(r) => rooms' = rooms]_vars

\* mutations were called for r2, which never had state, and for r1 while it
\* had none; r1 holds content and r2 still has no state
C16_Witness ==
    /\ hist["r1"].late /\ hist["r2"].late
    /\ ~HasRoom(rooms, "r2")
    /\ HasRoom(rooms, "r1")
    /\ rooms["r1"].messages # <<>>
    /\ rooms["r1"].roundTimeline # <<>>

(***************************************************************************)
(* SpecRooms: two rooms side by side, each with its own hook. r1 goes      *)
(* through its whole life (initialized, connected, events, reconnects,     *)
(* disconnected, cleared); r2 is initialized, connected and receives       *)
(* `connected` and `error` events.                                         *)
(***************************************************************************)
RoomsEvents ==
    {[type |-> "connected"], [type |-> "error"], [type |-> "negotiation_complete"],
     OfferEvent("A", 90, 1)}

QuietEvents == {[type |-> "connected"], [type |-> "error"]}

DeliverBounded(roomId, event) ==
    /\ event.type = "error" => net[roomId].scheduled < MaxRoomTimers
    /\ Deliver(roomId, event)

\* every step of a room's owner, hook and stream
RoomStep(roomId) ==
    \/ InitializeRoom(roomId)
    \/ ClearRoom(roomId)
    \/ Connect(roomId)
    \/ Disconnect(roomId)
    \/ TimerFire(roomId)
    \/ Render(roomId)
    \/ \E event \in RoomsEvents : DeliverBounded(roomId, event)

QuietStep(roomId) ==
    \/ InitializeRoom(roomId)
    \/ net[roomId].streams = 0 /\ Connect(roomId)
    \/ \E event \in QuietEvents : DeliverBounded(roomId, event)

RoomsNext == RoomStep("r1") \/ QuietStep("r2")

SpecRooms == Init /\ [][RoomsNext]_vars

\* everything that belongs to a room: its state in the store, its session
\* status, the refs of its hook, its streams and timers
RoomView(roomId) ==
    [state |-> IF HasRoom(rooms, roomId) THEN Some(rooms[roomId]) ELSE None,
     status |-> negotiationRooms[roomId],
     hook |-> hook[roomId],
     net |-> net[roomId]]

RoomViewAfter(roomId) ==
    [state |-> IF HasRoom(rooms', roomId) THEN Some(rooms'[roomId]) ELSE None,
     status |-> negotiationRooms'[roomId],
     hook |-> hook'[roomId],
     net |-> net'[roomId]]

\* C17: a step of room A (an event handled, a connect, a disconnect, a
\* clear, a timer firing) leaves everything that belongs to another room B
\* unchanged.
C17_RoomsIndependent ==
    [][/\ RoomStep("r1") => RoomViewAfter("r2") = RoomView("r2")
       /\ QuietStep("r2") => RoomViewAfter("r1") = RoomView("r1")]_vars

\* r1 was connected and then cleared while r2 is streaming with a reconnect
\* timer pending
C17_Witness ==
    /\ ~HasRoom(rooms, "r1") /\ hist["r1"].connects > 0
    /\ HasRoom(rooms, "r2") /\ rooms["r2"].isStreaming
    /\ net["r2"].timers # {} /\ net["r2"].streams > 0

\* C24: no live connection exists for a room whose state is not in the store
\* (a room is connected only once it has state, so a live connection of a
\* room without state is one that outlived clearRoom).
C24_NoStreamWithoutState ==
    \A r \in RoomIds : net[r].streams > 0 => HasRoom(rooms, r)

(***************************************************************************)
(* SpecLatency: one room receiving round starts and seller responses for   *)
(* two rounds, with timestamps on either side of each other, in any order. *)
(***************************************************************************)
LatencyRounds == {1, 2}

LatencyStartTimes == {2, 4}

LatencyResponseTimes == {1, 3}

LatencyStarts ==
    {RoundStartOf(rn, 10, ts) : rn \in LatencyRounds, ts \in LatencyStartTimes}

LatencyResponses ==
    {SellerResponse("A", <<"hi">>, None, rn, ts) :
        rn \in LatencyRounds, ts \in LatencyResponseTimes}

LatencyNext ==
    \/ InitializeRoom("r1")
    \/ Mount("r1")
    \/ \E event \in LatencyStarts \cup LatencyResponses : Deliver("r1", event)

SpecLatency == Init /\ [][LatencyNext]_vars

\* max(0, ts - started_at) if the entry is started, 0 otherwise
ExpectedLatency(entry, ts) ==
    IF entry # None /\ entry[1].startedAt # None
    THEN Max2(0, ts - entry[1].startedAt[1])
    ELSE 0

\* C25: the latency recorded for a `seller_response` tagged to round r is
\* max(0, timestamp of the event - started_at of round r) when the round was
\* started before, and 0 when it was not; it is never negative.
C25_LatencyClamped ==
    [][\A e \in LatencyResponses :
          Deliver("r1", e) /\ HasRoom(rooms, "r1") =>
              LET before == RoundEntryOf(rooms["r1"], e.round)
                  after == RoundEntryOf(rooms'["r1"], e.round)
                  recorded == after[1].sellerResponses[Len(after[1].sellerResponses)]
              IN  /\ after # None
                  /\ Len(after[1].sellerResponses) =
                        (IF before = None THEN 0 ELSE Len(before[1].sellerResponses)) + 1
                  /\ recorded.responseMs = ExpectedLatency(before, e.timestamp)
                  /\ recorded.responseMs >= 0]_vars

\* round 1 holds a response with a positive latency followed by one recorded
\* with latency 0 (its timestamp lies before the start of the round: clamped);
\* round 2 holds a response recorded before the round was started
C25_Witness ==
    /\ HasRoom(rooms, "r1")
    /\ LET e1 == RoundEntryOf(rooms["r1"], 1)
           e2 == RoundEntryOf(rooms["r1"], 2)
       IN  /\ e1 # None /\ e2 # None
           /\ e1[1].startedAt # None
           /\ \E i \in 1..Len(e1[1].sellerResponses) : \E j \in 1..Len(e1[1].sellerResponses) :
                 /\ i < j
                 /\ e1[1].sellerResponses[i].responseMs > 0
                 /\ e1[1].sellerResponses[j].responseMs = 0
           /\ e2[1].startedAt = None
           /\ e2[1].sellerResponses # <<>>
           /\ e2[1].sellerResponses[1].responseMs = 0

(***************************************************************************)
(* SpecSession: one room receiving round starts (with the round number and *)
(* the number of rounds announced by the server), decisions with and       *)
(* without a deal and `negotiation_complete`, in any order the stream      *)
(* delivers them; the session registry mirrors the status.                 *)
(***************************************************************************)
SessionRounds == {1, 2}

SessionMaxRounds == {5, 10}

SessionRoundStarts ==
    {RoundStartOf(rn, m, 2) : rn \in SessionRounds, m \in SessionMaxRounds}

SessionEvents ==
    SessionRoundStarts \cup
    {[type |-> "connected"], [type |-> "negotiation_complete"], DealDecision, NoDealDecision}

SessionNext ==
    \/ InitializeRoom("r1")
    \/ Mount("r1")
    \/ Render("r1")
    \/ \E event \in SessionEvents : Deliver("r1", event)

SpecSession == Init /\ [][SessionNext]_vars

\* the room holds a RoundEntry for `round` started at `ts`
HasEntryStartedAt(room, round, ts) ==
    \E i \in 1..Len(room.roundTimeline) :
        /\ room.roundTimeline[i].round = round
        /\ room.roundTimeline[i].startedAt = Some(ts)

\* C22: handling round_start(round_number = r, max_rounds = m) on an
\* initialized room sets currentRound to r and maxRounds to m, and leaves a
\* RoundEntry for r whose startedAt is the timestamp of the event.
C22_RoundStartSets ==
    [][\A e \in SessionRoundStarts :
          Deliver("r1", e) /\ HasRoom(rooms, "r1") =>
              /\ rooms'["r1"].currentRound = e.round_number
              /\ rooms'["r1"].maxRounds = e.max_rounds
              /\ HasEntryStartedAt(rooms'["r1"], e.round_number, e.timestamp)]_vars

\* the events said to complete a room in the session registry
CompletingEvents == {DealDecision, NoDealDecision, [type |-> "negotiation_complete"]}

\* C23: right after a `decision` event (naming a seller or not) or a
\* `negotiation_complete` event was handled, the status of the room in the
\* session registry is `completed`.
C23_CompletedMirrored ==
    [][\A e \in CompletingEvents :
          Deliver("r1", e) => negotiationRooms'["r1"] = "completed"]_vars

\* pending -> active -> completed
StatusRank(status) ==
    CASE status = "pending" -> 0
      [] status = "active" -> 1
      [] status = "completed" -> 2

\* C28: the status of a room in the session registry never moves backwards;
\* once `completed` was mirrored, no later event sets it back to `active`.
C28_StatusNeverBackwards ==
    [][\A r \in RoomIds :
          StatusRank(negotiationRooms'[r]) >= StatusRank(negotiationRooms[r])]_vars

(***************************************************************************)
(* SpecInit: initializeRoom called at any time, for rooms without and with *)
(* state, with either number of rounds, among the mutations of the store   *)
(* filling r1 and the clears of r1.                                        *)
(***************************************************************************)
InitMaxRounds == {5, 10}

\* initializeRoom(roomId, maxRounds), whatever the room holds; the history
\* notes a call made for a room that has state with another maxRounds
InitializeRoomWith(roomId, maxRounds) ==
    /\ rooms' = initializeRoom(rooms, roomId, maxRounds)
    /\ hist' = [hist EXCEPT ![roomId].reinit =
                    @ \/ (HasRoom(rooms, roomId) /\ rooms[roomId].maxRounds # maxRounds)]
    /\ UNCHANGED <<negotiationRooms, hook, net, twin>>

InitNext ==
    \/ \E roomId \in RoomIds : \E maxRounds \in InitMaxRounds :
          InitializeRoomWith(roomId, maxRounds)
    \/ ClearRoom("r1")
    \/ StoreMutation("r1")

SpecInit == Init /\ [][InitNext]_vars

\* C30: initializeRoom called for a room that has state leaves the whole
\* store as it was (messages, offers, currentRound, maxRounds, decision,
\* isStreaming and roundTimeline of the room; the maxRounds argument is
\* ignored); called for a room without state it adds the empty room with the
\* maxRounds given and leaves every other room as it was.
C30_InitializeIdempotent ==
    [][\A r \in RoomIds : \A m \in InitMaxRounds :
          InitializeRoomWith(r, m) =>
              IF HasRoom(rooms, r)
              THEN rooms' = rooms
              ELSE /\ DOMAIN rooms' = (DOMAIN rooms) \cup {r}
                   /\ \A q \in DOMAIN rooms : rooms'[q] = rooms[q]
                   /\ rooms'[r].messages = <<>>
                   /\ rooms'[r].offers = <<>>
                   /\ rooms'[r].currentRound = 0
                   /\ rooms'[r].maxRounds = m
                   /\ rooms'[r].decision = None
                   /\ ~rooms'[r].isStreaming
                   /\ rooms'[r].roundTimeline = <<>>]_vars

\* initializeRoom was called with another maxRounds for r1 while it had
\* state; r1 holds messages, an offer, a decision and a round entry
C30_Witness ==
    /\ hist["r1"].reinit
    /\ HasRoom(rooms, "r1") /\ HasRoom(rooms, "r2")
    /\ rooms["r1"].messages # <<>>
    /\ rooms["r1"].offers # <<>>
    /\ rooms["r1"].decision # None
    /\ rooms["r1"].currentRound = 1
    /\ rooms["r1"].isStreaming
    /\ rooms["r1"].roundTimeline # <<>>

====
